---- MODULE Spec2Model ----
(***************************************************************************)
(* A state-machine model of grabber.py: the sequential script that walks a *)
(* Drive folder tree, takes one still frame of every video, uploads it and *)
(* appends one row per video to a sheet.                                   *)
(*                                                                         *)
(* Strings are sequences of tokens, so that joining a path, splitting an   *)
(* extension and testing a prefix or a suffix compute something.           *)
(* The remote services, the decoder and the local file system are the      *)
(* environment: each call to them has its outcome chosen by the action     *)
(* that makes the call.                                                    *)
(***************************************************************************)
EXTENDS Integers, Sequences, FiniteSets, TLC

\* -------------------------------------------------------------- bounds
\* children a listing returns on its first page (the service's page size)
PageSize == 2
\* most chunks one download is delivered in
MaxChunks == 2

\* ------------------------------------------------------------ strings
None == <<>>

\* str.endswith
EndsWith(s, suffix) ==
    /\ Len(suffix) <= Len(s)
    /\ SubSeq(s, Len(s) - Len(suffix) + 1, Len(s)) = suffix

\* str.startswith
StartsWith(s, prefix) ==
    /\ Len(prefix) <= Len(s)
    /\ SubSeq(s, 1, Len(prefix)) = prefix

\* os.path.splitext(p)[0]: everything before the last "." that has a
\* non-"." token somewhere before it; the whole name when there is none.
SplitextStem(p) ==
    LET dots == {i \in 1..Len(p) : /\ p[i] = "."
                                   /\ \E j \in 1..(i - 1) : p[j] # "."}
    IN  IF dots = {} THEN p
        ELSE SubSeq(p, 1, (CHOOSE i \in dots : \A k \in dots : k <= i) - 1)

FOLDER_MIME == <<"application/vnd.google-apps.folder">>
VIDEO_PREFIX == <<"video/">>

\* ------------------------------------------------------ configuration
PLACEHOLDER == <<"_PLACEHOLDER">>
SHEET_HEADER == << <<"Thumbnail Name">>, <<"Original Video Path">>, <<"Link to Thumbnail">> >>
\* CAPTURE_TIMESTAMP_SECONDS, default "2"
CAPTURE_TIMESTAMP_SECONDS == 2

\* The environments a run may start in: every identifier set, one of the
\* three left at its placeholder default, and the credentials absent.
Configs ==
    LET ok == [START_FOLDER_ID |-> <<"root-id">>,
               THUMBNAIL_FOLDER_ID |-> <<"thumbs-id">>,
               SPREADSHEET_ID |-> <<"sheet-id">>,
               SERVICE_ACCOUNT_JSON |-> TRUE,
               SERVICE_ACCOUNT_FILE |-> FALSE]
    IN  { ok,
          [ok EXCEPT !.SERVICE_ACCOUNT_JSON = FALSE, !.SERVICE_ACCOUNT_FILE = TRUE],
          [ok EXCEPT !.SERVICE_ACCOUNT_JSON = FALSE],
          [ok EXCEPT !.START_FOLDER_ID = <<"FOLDER_ID">> \o PLACEHOLDER],
          [ok EXCEPT !.THUMBNAIL_FOLDER_ID = <<"THUMBNAIL_FOLDER_ID">> \o PLACEHOLDER],
          [ok EXCEPT !.SPREADSHEET_ID = <<"SPREADSHEET_ID">> \o PLACEHOLDER] }

\* --------------------------------------------------- the remote store
\* A directory entry as files().list returns it, plus its trashed flag,
\* which the query filters on.
Entry(id, name, mime) == [id |-> <<id>>, name |-> name, mimeType |-> mime, trashed |-> FALSE]
Folder(id, name) == Entry(id, <<name>>, FOLDER_MIME)
Video(id, stem) == Entry(id, <<stem, ".", "mp4">>, VIDEO_PREFIX \o <<"mp4">>)
Other(id, stem) == Entry(id, <<stem, ".", "txt">>, <<"text/", "plain">>)

RootId == <<"root-id">>

\* The folder trees a run may walk: for each, the display name of the root
\* and for every folder the stable, ordered children the store holds.
\*  1: Root / Clips / { a.mp4, notes.txt }
\*  2: Root / { A / { B / {}, v1.mp4 }, v2.mp4 }
\*  3: Root / { v1.mp4, old.mp4 (trashed), x.txt, S / { v3.mp4 }, v2.mp4 }
Trees ==
    << [rootName |-> <<"Root">>,
        children |-> [f \in {RootId, <<"clips">>} |->
            IF f = RootId THEN << Folder("clips", "Clips") >>
            ELSE << Video("a", "a"), Other("notes", "notes") >>]],
       [rootName |-> <<"Root">>,
        children |-> [f \in {RootId, <<"A">>, <<"B">>} |->
            IF f = RootId THEN << Folder("A", "A"), Video("v2", "v2") >>
            ELSE IF f = <<"A">> THEN << Folder("B", "B"), Video("v1", "v1") >>
            ELSE << >>]],
       [rootName |-> <<"Root">>,
        children |-> [f \in {RootId, <<"S">>} |->
            IF f = RootId
            THEN << Video("v1", "v1"),
                    [Video("old", "old") EXCEPT !.trashed = TRUE],
                    Other("x", "x"),
                    Folder("S", "S"),
                    Video("v2", "v2") >>
            ELSE << Video("v3", "v3") >>]] >>

\* SelectSeq with the test written in place
NonTrashed(entries) ==
    LET keep(e) == ~e.trashed IN SelectSeq(entries, keep)

\* What one files().list call returns in "files": the query keeps the
\* non-trashed children of the folder and the service hands back one page.
ListFirstPage(t, folder_id) ==
    LET all == NonTrashed(t.children[folder_id])
    IN  SubSeq(all, 1, IF Len(all) < PageSize THEN Len(all) ELSE PageSize)

VARIABLES
    cfg,        \* the environment-derived module constants (lines 17-25)
    tree,       \* the folder tree of the remote store
    pc,         \* position of the single thread of control
    stack,      \* the activations of traverse_folder, innermost last
    vid,        \* the locals of the current or last process_video call
    app,        \* the locals of the current or last append_to_sheet call
    ledger,     \* the rows of the remote sheet
    drive,      \* the thumbnails uploaded to the remote store
    tmpfiles,   \* the paths that exist in local temporary storage
    listCalls,  \* the folder ids files().list was called for, in order
    procCalls,  \* the video ids process_video was called for, in order
    listFailed, \* the folder ids whose listing raised HttpError
    raised,     \* the exception that ended the run, if any
    hist,       \* what the run has done so far: remote calls, reports
    run         \* the number of the run, counted from 1

vars == << cfg, tree, pc, stack, vid, app, ledger, drive, tmpfiles,
           listCalls, procCalls, listFailed, raised, hist, run >>

\* --------------------------------------------------------------- Init
NoVideo ==
    [file |-> None, folder_path |-> None, temp_video_path |-> None,
     thumbnail_path |-> None, chunks |-> 0, frame_id |-> 0, image |-> FALSE,
     uploads |-> 0,
     ret |-> None, exc |-> "none", skipped |-> "none", cleanup |-> "none"]

NoAppend ==
    [data_row |-> None, caller |-> "none", attempt |-> 0, backoff_seconds |-> 0,
     requests |-> 0, failed |-> 0, written |-> 0, waits |-> <<>>, rows_before |-> 0]

\* Nothing done yet: no remote call made, the sheet not read, no header
\* append called, no cleanup warning printed, no failure reported, no row
\* given up.
NoHistory ==
    [contacted |-> FALSE, read |-> "none", header |-> "none", warned |-> FALSE,
     clean |-> TRUE, dropped |-> {}]

\* a call or a step has failed
Fail(h) == [h EXCEPT !.clean = FALSE]

\* the append of this row was given up after the last attempt
GiveUp(h, data_row) == [h EXCEPT !.dropped = @ \cup {data_row}]

\* a remote call is being made
Contact(h) == [h EXCEPT !.contacted = TRUE]

\* The sheet a run finds: empty, or holding the header of an earlier run.
Init ==
    /\ cfg \in Configs
    /\ tree \in {Trees[n] : n \in 1..Len(Trees)}
    /\ pc = "main"
    /\ stack = <<>>
    /\ vid = NoVideo
    /\ app = NoAppend
    /\ ledger \in {<<>>, <<SHEET_HEADER>>}
    /\ drive = <<>>
    /\ tmpfiles = {}
    /\ listCalls = <<>>
    /\ procCalls = <<>>
    /\ listFailed = {}
    /\ raised = "none"
    /\ hist = NoHistory
    /\ run = 1

\* -------------------------------------------------- control transfers
\* An exception no handler of the script catches unwinds every activation
\* and ends the process.
Crash(exc) ==
    /\ pc' = "crashed"
    /\ stack' = <<>>
    /\ raised' = exc

\* traverse_folder returns: to the loop of the activation that called it
\* (line 194), or to main (lines 234-235).
\* The for loop of the innermost activation has finished one more item.
Advance(stk) ==
    [stk EXCEPT ![Len(stk)].i = @ + 1]

ReturnFromTraverse ==
    /\ stack' = IF Len(stack) = 1 THEN <<>>
                ELSE Advance(SubSeq(stack, 1, Len(stack) - 1))
    /\ pc' = IF Len(stack) = 1 THEN "done" ELSE "loop"
    /\ raised' = raised

\* append_to_sheet returns: to main (line 224 -> 229) or to the loop body
\* of traverse_folder (line 198 -> 190).
ReturnFromAppend(caller) ==
    /\ pc' = IF caller = "main" THEN "root_name" ELSE "loop"
    /\ stack' = IF caller = "main" THEN stack ELSE Advance(stack)
    /\ raised' = raised

\* ------------------------------------------------------ append_to_sheet
max_retries == 5
initial_backoff_seconds == 2

\* a backoff that grows by its first value instead of doubling
NextBackoffLinear(backoff_seconds) == backoff_seconds + initial_backoff_seconds

\* line 91
NextBackoff(backoff_seconds) == backoff_seconds * 2

\* a guard that lets every row through
IsEmptyRowNever(data_row) == FALSE

\* line 64: "if not data_row"
IsEmptyRow(data_row) == data_row = None

\* the last-attempt test off by one
IsLastAttemptLate(attempt) == attempt = max_retries

\* line 85
IsLastAttempt(attempt) == attempt + 1 = max_retries

\* Lines 60-68: the call. An empty row returns at once; otherwise the
\* retry loop starts with attempt 0 and a backoff of 2.
CallAppend(data_row, caller) ==
    /\ app' = [data_row |-> data_row, caller |-> caller, attempt |-> 0,
               backoff_seconds |-> initial_backoff_seconds,
               requests |-> 0, failed |-> 0, written |-> 0, waits |-> <<>>,
               rows_before |-> Len(ledger)]
    /\ IF IsEmptyRow(data_row)
       THEN ReturnFromAppend(caller)
       ELSE /\ pc' = "append_try"
            /\ stack' = stack
            /\ raised' = raised

\* How the header append of main ended, noted when the call was main's.
HeaderOutcome(h, caller, outcome) ==
    IF caller = "main" THEN [h EXCEPT !.header = outcome] ELSE h

\* a retry loop that does not return on success and goes on to the next
\* attempt
AppendTryNoReturn ==
    /\ pc = "append_try"
    /\ \E outcome \in {"ok", "transient", "other"} :
         CASE outcome = "ok" ->
                /\ ledger' = Append(ledger, app.data_row)
                /\ hist' = HeaderOutcome(Contact(hist), app.caller, "written")
                /\ IF IsLastAttempt(app.attempt)
                   THEN /\ app' = [app EXCEPT !.requests = @ + 1, !.written = @ + 1]
                        /\ ReturnFromAppend(app.caller)
                   ELSE /\ app' = [app EXCEPT !.requests = @ + 1, !.written = @ + 1,
                                              !.attempt = @ + 1]
                        /\ pc' = "append_try"
                        /\ stack' = stack
                        /\ raised' = raised
           [] outcome = "transient" ->
                /\ ledger' = ledger
                /\ app' = [app EXCEPT !.requests = @ + 1, !.failed = @ + 1]
                /\ IF IsLastAttempt(app.attempt)
                   THEN /\ hist' = HeaderOutcome(GiveUp(Fail(Contact(hist)), app.data_row),
                                                  app.caller, "exhausted")
                        /\ ReturnFromAppend(app.caller)
                   ELSE /\ hist' = Fail(Contact(hist))
                        /\ pc' = "append_sleep"
                        /\ stack' = stack
                        /\ raised' = raised
           [] outcome = "other" ->
                /\ ledger' = ledger
                /\ app' = [app EXCEPT !.requests = @ + 1]
                /\ hist' = HeaderOutcome(Fail(Contact(hist)), app.caller, "raised")
                /\ Crash("Other")
    /\ UNCHANGED << cfg, tree, vid, drive, tmpfiles, listCalls, procCalls, listFailed, run >>

\* Lines 70-87: one pass of the retry loop, up to the sleep. The remote
\* append succeeds, fails with one of the caught errors (HttpError,
\* TimeoutError, socket timeout), or fails with an error the handler does
\* not name, which leaves the function.
AppendTry ==
    /\ pc = "append_try"
    /\ \E outcome \in {"ok", "transient", "other"} :
         CASE outcome = "ok" ->
                /\ ledger' = Append(ledger, app.data_row)
                /\ app' = [app EXCEPT !.requests = @ + 1, !.written = @ + 1]
                /\ hist' = HeaderOutcome(Contact(hist), app.caller, "written")
                /\ ReturnFromAppend(app.caller)
           [] outcome = "transient" ->
                /\ ledger' = ledger
                /\ app' = [app EXCEPT !.requests = @ + 1, !.failed = @ + 1]
                /\ IF IsLastAttempt(app.attempt)
                   THEN /\ hist' = HeaderOutcome(GiveUp(Fail(Contact(hist)), app.data_row),
                                                  app.caller, "exhausted")
                        /\ ReturnFromAppend(app.caller)
                   ELSE /\ hist' = Fail(Contact(hist))
                        /\ pc' = "append_sleep"
                        /\ stack' = stack
                        /\ raised' = raised
           [] outcome = "other" ->
                /\ ledger' = ledger
                /\ app' = [app EXCEPT !.requests = @ + 1]
                /\ hist' = HeaderOutcome(Fail(Contact(hist)), app.caller, "raised")
                /\ Crash("Other")
    /\ UNCHANGED << cfg, tree, vid, drive, tmpfiles, listCalls, procCalls, listFailed, run >>

\* Lines 89-91 and the loop header: sleep for the backoff, double it, and
\* start the next attempt.
AppendSleep ==
    /\ pc = "append_sleep"
    /\ app' = [app EXCEPT !.waits = Append(@, app.backoff_seconds),
                          !.backoff_seconds = NextBackoff(@),
                          !.attempt = @ + 1]
    /\ pc' = "append_try"
    /\ UNCHANGED << cfg, tree, stack, vid, ledger, drive, tmpfiles,
                    listCalls, procCalls, listFailed, raised, hist, run >>

\* ----------------------------------------------------------------- main
\* Lines 205-212: the three identifiers must not end in _PLACEHOLDER.
\* a check that leaves the sheet identifier out
HasPlaceholderButSheet(c) ==
    \/ EndsWith(c.START_FOLDER_ID, PLACEHOLDER)
    \/ EndsWith(c.THUMBNAIL_FOLDER_ID, PLACEHOLDER)

\* Lines 205, 208, 211: the three tests
HasPlaceholder(c) ==
    \/ EndsWith(c.START_FOLDER_ID, PLACEHOLDER)
    \/ EndsWith(c.THUMBNAIL_FOLDER_ID, PLACEHOLDER)
    \/ EndsWith(c.SPREADSHEET_ID, PLACEHOLDER)

CheckConfig ==
    /\ pc = "main"
    /\ IF HasPlaceholder(cfg)
       THEN Crash("RuntimeError")
       ELSE /\ pc' = "authenticate"
            /\ UNCHANGED << stack, raised >>
    /\ UNCHANGED << cfg, tree, vid, app, ledger, drive, tmpfiles,
                    listCalls, procCalls, listFailed, hist, run >>

\* Lines 214, 33-58: credentials come from the inline JSON, else from the
\* file, else the run ends with RuntimeError.
Authenticate ==
    /\ pc = "authenticate"
    /\ IF cfg.SERVICE_ACCOUNT_JSON \/ cfg.SERVICE_ACCOUNT_FILE
       THEN /\ pc' = "header_check"
            /\ UNCHANGED << stack, raised >>
       ELSE Crash("RuntimeError")
    /\ UNCHANGED << cfg, tree, vid, app, ledger, drive, tmpfiles,
                    listCalls, procCalls, listFailed, hist, run >>

\* what the read of line 218 shows of the sheet
ReadResult(rows) == IF rows = <<>> THEN "empty" ELSE "rows"

\* a test that never asks for the header
NeedsHeaderNever(values) == FALSE

\* line 221: "if not result.get('values')"
NeedsHeader(values) == values = <<>>

\* Lines 217-226: read the sheet; write the header when it holds no row.
\* HttpError is reported and the run goes on; any other error leaves main.
HeaderCheck ==
    /\ pc = "header_check"
    /\ \E outcome \in {"ok", "HttpError", "other"} :
         CASE outcome = "ok" ->
                /\ IF NeedsHeader(ledger)
                   THEN /\ CallAppend(SHEET_HEADER, "main")
                        /\ hist' = [Contact(hist) EXCEPT !.read = ReadResult(ledger),
                                                         !.header = "called"]
                   ELSE /\ pc' = "root_name"
                        /\ hist' = [Contact(hist) EXCEPT !.read = ReadResult(ledger)]
                        /\ UNCHANGED << app, stack, raised >>
           [] outcome = "HttpError" ->
                /\ pc' = "root_name"
                /\ hist' = [Fail(Contact(hist)) EXCEPT !.read = "HttpError"]
                /\ UNCHANGED << app, stack, raised >>
           [] outcome = "other" ->
                /\ Crash("Other")
                /\ hist' = [Fail(Contact(hist)) EXCEPT !.read = "other"]
                /\ app' = app
    /\ UNCHANGED << cfg, tree, vid, ledger, drive, tmpfiles,
                    listCalls, procCalls, listFailed, run >>

\* A new activation of traverse_folder, before its list call.
Frame(folder_id, current_path) ==
    [folder_id |-> folder_id, current_path |-> current_path, items |-> <<>>, i |-> 0]

\* Lines 229-234: look the root folder's name up, outside any try, and
\* call traverse_folder for the root.
RootName ==
    /\ pc = "root_name"
    /\ \E outcome \in {"ok", "HttpError", "other"} :
         CASE outcome = "ok" ->
                /\ stack' = << Frame(cfg.START_FOLDER_ID, tree.rootName) >>
                /\ pc' = "list"
                /\ raised' = raised
                /\ hist' = Contact(hist)
           [] outcome = "HttpError" ->
                /\ Crash("HttpError")
                /\ hist' = Fail(Contact(hist))
           [] outcome = "other" ->
                /\ Crash("Other")
                /\ hist' = Fail(Contact(hist))
    /\ UNCHANGED << cfg, tree, vid, app, ledger, drive, tmpfiles,
                    listCalls, procCalls, listFailed, run >>

\* ------------------------------------------------------- process_video
\* line 119
TempVideoPath(file_name) == <<"temp_">> \o file_name

\* line 141
ThumbnailName(file_name) == SplitextStem(file_name) \o <<"_Thumbnail.jpg">>

\* line 142
ThumbnailPath(thumbnail_name) == <<"temp_">> \o thumbnail_name

\* line 131: int(fps * CAPTURE_TIMESTAMP_SECONDS), for a whole frame rate
FrameId(fps) == fps * CAPTURE_TIMESTAMP_SECONDS

\* The frame rates the decoder may report: none (0) or 30 per second.
FrameRates == {0, 30}

\* a handler that reports the error and lets it go on to the caller
OnHttpErrorReraise(v, step) == [v EXCEPT !.exc = "HttpError", !.skipped = step]

\* Lines 163-165: HttpError inside the try is reported and the result of
\* the call is None. "skipped" notes which report line was printed.
OnHttpError(v, step) == [v EXCEPT !.ret = None, !.skipped = step]

\* Lines 126-129 and 136-138: no usable frame rate, or no frame; the
\* reason is reported and the result of the call is None.
OnNoFrame(v, step) == [v EXCEPT !.ret = None, !.skipped = step]

\* Lines 98-103: the call, from line 196.
CallProcessVideo(video_file, folder_path) ==
    /\ vid' = [NoVideo EXCEPT !.file = video_file, !.folder_path = folder_path]
    /\ procCalls' = Append(procCalls, video_file.id)
    /\ pc' = "download"

\* a download loop that does not test the flag of the last chunk and starts over
DownloadChunkStartsOver ==
    /\ pc = "download"
    /\ \E outcome \in {"more", "done", "HttpError", "other"} :
         CASE outcome = "more" ->
                /\ vid.chunks + 1 < MaxChunks
                /\ vid' = [vid EXCEPT !.chunks = @ + 1]
                /\ pc' = "download"
           [] outcome = "done" ->
                /\ vid' = [vid EXCEPT !.chunks = 0]
                /\ pc' = "download"
           [] outcome = "HttpError" ->
                /\ vid' = OnHttpError(vid, "download")
                /\ pc' = "finally"
           [] outcome = "other" ->
                /\ vid' = [vid EXCEPT !.exc = "Other"]
                /\ pc' = "finally"
    /\ hist' = Contact(hist)
    /\ UNCHANGED << cfg, tree, stack, app, ledger, drive, tmpfiles,
                    listCalls, procCalls, listFailed, raised, run >>

\* Lines 107-116: one next_chunk call of the download loop. It delivers a
\* chunk that is or is not the last, or fails; HttpError goes to the
\* handler of line 163, which makes the result None, and any other error
\* leaves the function after the cleanup.
DownloadChunk ==
    /\ pc = "download"
    /\ \E outcome \in {"more", "done", "HttpError", "other"} :
         CASE outcome = "more" ->
                /\ vid.chunks + 1 < MaxChunks
                /\ vid' = [vid EXCEPT !.chunks = @ + 1]
                /\ pc' = "download"
           [] outcome = "done" ->
                /\ vid' = [vid EXCEPT !.chunks = @ + 1]
                /\ pc' = "write_temp"
           [] outcome = "HttpError" ->
                /\ vid' = OnHttpError(vid, "download")
                /\ pc' = "finally"
           [] outcome = "other" ->
                /\ vid' = [vid EXCEPT !.exc = "Other"]
                /\ pc' = "finally"
    /\ hist' = Contact(hist)
    /\ UNCHANGED << cfg, tree, stack, app, ledger, drive, tmpfiles,
                    listCalls, procCalls, listFailed, raised, run >>

\* Lines 119-121: name the temporary video file and write the bytes. When
\* open or write fails (OSError) the file may or may not have been created.
WriteTemp ==
    /\ pc = "write_temp"
    /\ LET path == TempVideoPath(vid.file.name) IN
       \E outcome \in {"ok", "failed_absent", "failed_partial"} :
         CASE outcome = "ok" ->
                /\ vid' = [vid EXCEPT !.temp_video_path = path]
                /\ tmpfiles' = tmpfiles \cup {path}
                /\ pc' = "probe"
           [] outcome = "failed_absent" ->
                /\ vid' = [vid EXCEPT !.temp_video_path = path, !.exc = "Other"]
                /\ tmpfiles' = tmpfiles
                /\ pc' = "finally"
           [] outcome = "failed_partial" ->
                /\ vid' = [vid EXCEPT !.temp_video_path = path, !.exc = "Other"]
                /\ tmpfiles' = tmpfiles \cup {path}
                /\ pc' = "finally"
    /\ UNCHANGED << cfg, tree, stack, app, ledger, drive,
                    listCalls, procCalls, listFailed, raised, hist, run >>

\* the frame-rate test with its "return None" left out
ProbeNoReturn ==
    /\ pc = "probe"
    /\ \E fps \in FrameRates :
         /\ vid' = IF fps = 0
                   THEN [OnNoFrame(vid, "fps") EXCEPT !.frame_id = FrameId(fps)]
                   ELSE [vid EXCEPT !.frame_id = FrameId(fps)]
         /\ pc' = "read_frame"
    /\ UNCHANGED << cfg, tree, stack, app, ledger, drive, tmpfiles,
                    listCalls, procCalls, listFailed, raised, hist, run >>

\* Lines 124-131: open the file with the decoder and read its frame rate;
\* no rate, or a rate of zero, returns None.
Probe ==
    /\ pc = "probe"
    /\ \E fps \in FrameRates :
         IF fps = 0
         THEN /\ vid' = OnNoFrame(vid, "fps")
              /\ pc' = "finally"
         ELSE /\ vid' = [vid EXCEPT !.frame_id = FrameId(fps)]
              /\ pc' = "read_frame"
    /\ UNCHANGED << cfg, tree, stack, app, ledger, drive, tmpfiles,
                    listCalls, procCalls, listFailed, raised, hist, run >>

\* a read whose failure is not tested, so that the pipeline goes on
ReadFrameIgnoresFailure ==
    /\ pc = "read_frame"
    /\ \E success \in BOOLEAN :
         /\ vid' = [vid EXCEPT !.image = success]
         /\ pc' = "imwrite"
    /\ UNCHANGED << cfg, tree, stack, app, ledger, drive, tmpfiles,
                    listCalls, procCalls, listFailed, raised, hist, run >>

\* Lines 132-138: seek to the frame and decode it; a failed read returns None.
ReadFrame ==
    /\ pc = "read_frame"
    /\ \E success \in BOOLEAN :
         IF success
         THEN /\ vid' = [vid EXCEPT !.image = TRUE]
              /\ pc' = "imwrite"
         ELSE /\ vid' = OnNoFrame(vid, "decode")
              /\ pc' = "finally"
    /\ UNCHANGED << cfg, tree, stack, app, ledger, drive, tmpfiles,
                    listCalls, procCalls, listFailed, raised, hist, run >>

\* Lines 141-151: name the thumbnail, encode the frame into its temporary
\* file and open that file for the upload. When the encoder writes nothing,
\* opening the missing file raises an error that is not HttpError.
WriteThumbnail ==
    /\ pc = "imwrite"
    /\ LET path == ThumbnailPath(ThumbnailName(vid.file.name)) IN
       \E written \in BOOLEAN :
         IF written
         THEN /\ vid' = [vid EXCEPT !.thumbnail_path = path]
              /\ tmpfiles' = tmpfiles \cup {path}
              /\ pc' = "upload"
         ELSE /\ vid' = [vid EXCEPT !.thumbnail_path = path, !.exc = "Other"]
              /\ tmpfiles' = tmpfiles
              /\ pc' = "finally"
    /\ UNCHANGED << cfg, tree, stack, app, ledger, drive,
                    listCalls, procCalls, listFailed, raised, hist, run >>

\* The file the store creates for an upload: its name, its parent folder
\* and the link the store gives it.
Uploaded(name, n) ==
    [name |-> name, parents |-> << cfg.THUMBNAIL_FOLDER_ID >>,
     webViewLink |-> <<"https://drive/", ToString(n), "/">> \o name]

\* an upload that reuses the thumbnail of that name when the store has one
UploadReusesExisting ==
    /\ pc = "upload"
    /\ \E outcome \in {"ok", "HttpError", "other"} :
         CASE outcome = "ok" ->
                LET name == ThumbnailName(vid.file.name)
                    old == {k \in DOMAIN drive : drive[k].name = name}
                    up == IF old = {} THEN Uploaded(name, Len(drive) + 1)
                          ELSE drive[CHOOSE k \in old : TRUE]
                IN
                /\ drive' = IF old = {} THEN Append(drive, up) ELSE drive
                /\ vid' = [vid EXCEPT !.uploads = @ + 1,
                                      !.ret = << up.name, vid.folder_path, up.webViewLink >>]
           [] outcome = "HttpError" ->
                /\ drive' = drive
                /\ vid' = OnHttpError([vid EXCEPT !.uploads = @ + 1], "upload")
           [] outcome = "other" ->
                /\ drive' = drive
                /\ vid' = [vid EXCEPT !.uploads = @ + 1, !.exc = "Other"]
    /\ pc' = "finally"
    /\ hist' = Contact(hist)
    /\ UNCHANGED << cfg, tree, stack, app, ledger, tmpfiles,
                    listCalls, procCalls, listFailed, raised, run >>

\* Lines 153-165: create the thumbnail in the destination folder and
\* return (name, folder_path, webViewLink); HttpError returns None.
Upload ==
    /\ pc = "upload"
    /\ \E outcome \in {"ok", "HttpError", "other"} :
         CASE outcome = "ok" ->
                LET up == Uploaded(ThumbnailName(vid.file.name), Len(drive) + 1) IN
                /\ drive' = Append(drive, up)
                /\ vid' = [vid EXCEPT !.uploads = @ + 1,
                                      !.ret = << up.name, vid.folder_path, up.webViewLink >>]
           [] outcome = "HttpError" ->
                /\ drive' = drive
                /\ vid' = OnHttpError([vid EXCEPT !.uploads = @ + 1], "upload")
           [] outcome = "other" ->
                /\ drive' = drive
                /\ vid' = [vid EXCEPT !.uploads = @ + 1, !.exc = "Other"]
    /\ pc' = "finally"
    /\ hist' = Contact(hist)
    /\ UNCHANGED << cfg, tree, stack, app, ledger, tmpfiles,
                    listCalls, procCalls, listFailed, raised, run >>

\* a cleanup that removes the video and forgets the thumbnail
RemoveVideoOnly(files, temp_video_path, thumbnail_path, failAt) ==
    IF failAt = "video" THEN files ELSE files \ {temp_video_path}

\* a cleanup that removes the thumbnail and forgets the video
RemoveThumbnailOnly(files, temp_video_path, thumbnail_path, failAt) ==
    IF failAt = "thumbnail" THEN files ELSE files \ {thumbnail_path}

\* Lines 169-175: what is left in temporary storage after the cleanup.
\* Each path that was set and exists is removed, the video first; when a
\* removal raises (failAt names it), the rest of the block is skipped and
\* the error is only reported.
RemoveTempFiles(files, temp_video_path, thumbnail_path, failAt) ==
    LET hasVideo == temp_video_path # None /\ temp_video_path \in files
        hasThumb == thumbnail_path # None /\ thumbnail_path \in files
    IN  IF failAt = "video" /\ hasVideo THEN files
        ELSE LET afterVideo == IF hasVideo THEN files \ {temp_video_path} ELSE files
             IN  IF failAt = "thumbnail" /\ hasThumb THEN afterVideo
                 ELSE IF hasThumb THEN afterVideo \ {thumbnail_path} ELSE afterVideo

\* The removals that can raise: those the block attempts.
CleanupFailures(files, temp_video_path, thumbnail_path) ==
    {"none"}
    \cup (IF temp_video_path # None /\ temp_video_path \in files THEN {"video"} ELSE {})
    \cup (IF thumbnail_path # None /\ thumbnail_path \in files THEN {"thumbnail"} ELSE {})

\* Lines 167-175 and the exit of process_video: the cleanup runs on every
\* path; then the function returns its result to line 196, or the pending
\* error goes on through traverse_folder, which catches only HttpError,
\* and through main.
Finally ==
    /\ pc = "finally"
    /\ \E failAt \in CleanupFailures(tmpfiles, vid.temp_video_path, vid.thumbnail_path) :
         /\ tmpfiles' = RemoveTempFiles(tmpfiles, vid.temp_video_path,
                                        vid.thumbnail_path, failAt)
         /\ vid' = [vid EXCEPT !.cleanup = IF failAt = "none" THEN "ok" ELSE "warning"]
         /\ hist' = [hist EXCEPT !.warned = @ \/ failAt # "none",
                                 !.clean = /\ @
                                           /\ failAt = "none"
                                           /\ vid.exc = "none"
                                           /\ vid.ret # None]
    /\ IF vid.exc = "none"
       THEN /\ pc' = "returned"
            /\ UNCHANGED << stack, raised >>
       ELSE Crash(vid.exc)
    /\ UNCHANGED << cfg, tree, app, ledger, drive, listCalls, procCalls, listFailed, run >>

\* ----------------------------------------------------- traverse_folder
Top == stack[Len(stack)]

\* line 191
ItemPath(current_path, name) == current_path \o <<"/">> \o name

\* line 193
IsFolder(item) == item.mimeType = FOLDER_MIME

\* a test that takes everything that is not a folder for a video
IsVideoAny(item) == ~IsFolder(item)

\* line 195
IsVideo(item) == ~IsFolder(item) /\ StartsWith(item.mimeType, VIDEO_PREFIX)

\* a list call whose HttpError is not caught
OnListHttpErrorPropagates ==
    /\ listFailed' = listFailed \cup {Top.folder_id}
    /\ Crash("HttpError")

\* Lines 200-201: HttpError from the list call is reported and the
\* activation returns normally to its caller.
OnListHttpError ==
    /\ listFailed' = listFailed \cup {Top.folder_id}
    /\ ReturnFromTraverse

\* Lines 179-188 and 200-201: the one list call of an activation. Its
\* "files" become the items of the loop; HttpError is reported and the
\* activation returns; any other error leaves every activation.
ListFolder ==
    /\ pc = "list"
    /\ listCalls' = Append(listCalls, Top.folder_id)
    /\ \E outcome \in {"ok", "HttpError", "other"} :
         CASE outcome = "ok" ->
                /\ stack' = [stack EXCEPT ![Len(stack)].items =
                                              ListFirstPage(tree, Top.folder_id)]
                /\ pc' = "loop"
                /\ hist' = Contact(hist)
                /\ UNCHANGED << listFailed, raised >>
           [] outcome = "HttpError" ->
                /\ OnListHttpError
                /\ hist' = Fail(Contact(hist))
           [] outcome = "other" ->
                /\ listFailed' = listFailed
                /\ Crash("Other")
                /\ hist' = Fail(Contact(hist))
    /\ UNCHANGED << cfg, tree, vid, app, ledger, drive, tmpfiles, procCalls, run >>

HasItem == pc = "loop" /\ Top.i < Len(Top.items)
Item == Top.items[Top.i + 1]

\* Line 190, items exhausted: the activation returns.
LoopEnd ==
    /\ pc = "loop"
    /\ Top.i >= Len(Top.items)
    /\ ReturnFromTraverse
    /\ UNCHANGED << cfg, tree, vid, app, ledger, drive, tmpfiles,
                    listCalls, procCalls, listFailed, hist, run >>

\* Lines 193-194: a folder is walked with its own name joined to the path.
EnterFolder ==
    /\ HasItem
    /\ IsFolder(Item)
    /\ stack' = Append(stack, Frame(Item.id, ItemPath(Top.current_path, Item.name)))
    /\ pc' = "list"
    /\ UNCHANGED << cfg, tree, vid, app, ledger, drive, tmpfiles,
                    listCalls, procCalls, listFailed, raised, hist, run >>

\* a call that hands the video's own path to process_video
StartVideoItemPath ==
    /\ HasItem
    /\ IsVideo(Item)
    /\ CallProcessVideo(Item, ItemPath(Top.current_path, Item.name))
    /\ UNCHANGED << cfg, tree, stack, app, ledger, drive, tmpfiles,
                    listCalls, listFailed, raised, hist, run >>

\* Lines 195-196: a video is processed with the path of the folder it is in.
StartVideo ==
    /\ HasItem
    /\ IsVideo(Item)
    /\ CallProcessVideo(Item, Top.current_path)
    /\ UNCHANGED << cfg, tree, stack, app, ledger, drive, tmpfiles,
                    listCalls, listFailed, raised, hist, run >>

\* Lines 197-198: process_video has returned; its result is handed to
\* append_to_sheet.
LogAndAppend ==
    /\ pc = "returned"
    /\ CallAppend(vid.ret, "traverse")
    /\ UNCHANGED << cfg, tree, vid, ledger, drive, tmpfiles,
                    listCalls, procCalls, listFailed, hist, run >>

\* Lines 193-195, neither branch: the item is passed over.
SkipOther ==
    /\ HasItem
    /\ ~IsFolder(Item)
    /\ ~IsVideo(Item)
    /\ stack' = Advance(stack)
    /\ pc' = "loop"
    /\ UNCHANGED << cfg, tree, vid, app, ledger, drive, tmpfiles,
                    listCalls, procCalls, listFailed, raised, hist, run >>

\* ------------------------------------------------------------ a rerun
\* The script is started again after a run that completed: a new process,
\* with the sheet, the store and the local files as the run left them.
Rerun ==
    /\ pc = "done"
    /\ run < 2
    /\ run' = run + 1
    /\ pc' = "main"
    /\ stack' = <<>>
    /\ vid' = NoVideo
    /\ app' = NoAppend
    /\ listCalls' = <<>>
    /\ procCalls' = <<>>
    /\ listFailed' = {}
    /\ raised' = "none"
    /\ hist' = [NoHistory EXCEPT !.clean = hist.clean]
    /\ UNCHANGED << cfg, tree, ledger, drive, tmpfiles >>

\* ------------------------------------------------------- specification
Next ==
    \/ CheckConfig
    \/ Authenticate
    \/ HeaderCheck
    \/ RootName
    \/ ListFolder
    \/ LoopEnd
    \/ EnterFolder
    \/ StartVideo
    \/ SkipOther
    \/ DownloadChunk
    \/ WriteTemp
    \/ Probe
    \/ ReadFrame
    \/ WriteThumbnail
    \/ Upload
    \/ Finally
    \/ LogAndAppend
    \/ AppendTry
    \/ AppendSleep

Spec == Init /\ [][Next]_vars

\* Every call returns or fails and the interpreter goes on to the next
\* statement: a step that can be taken is taken.
SpecLive == Spec /\ WF_vars(Next)

\* the script run once and, when it completed, once more
NextTwice == Next \/ Rerun

SpecTwice == Init /\ [][NextTwice]_vars

TypeOK ==
    /\ pc \in {"main", "authenticate", "header_check", "root_name", "list", "loop",
               "download", "write_temp", "probe", "read_frame", "imwrite", "upload",
               "finally", "returned", "append_try", "append_sleep", "done", "crashed"}
    /\ raised \in {"none", "RuntimeError", "HttpError", "Other"}
    /\ app.attempt \in 0..(max_retries - 1)

\* =============================================================== claims
RECURSIVE SumSeq(_)
SumSeq(q) == IF q = <<>> THEN 0 ELSE Head(q) + SumSeq(Tail(q))

InAppend == pc \in {"append_try", "append_sleep"}

\* C1: one call of append_to_sheet with a non-empty row makes at most 5
\* remote append attempts, stops at the first success (the row is then the
\* last row of the sheet, written once), and sleeps exactly 2, 4, 8, 16
\* between consecutive failed attempts, with no sleep after the 5th; four
\* transient failures and then a success give a total wait of 30.
C1_RetryPolicy ==
    (app.caller # "none" /\ app.data_row # None) =>
        /\ app.requests <= 5
        /\ app.written <= 1
        /\ Len(ledger) = app.rows_before + app.written
        /\ app.written = 1 => /\ ~InAppend
                              /\ ledger[Len(ledger)] = app.data_row
        /\ app.waits = SubSeq(<<2, 4, 8, 16>>, 1, Len(app.waits))
        /\ Len(app.waits) = IF pc = "append_sleep" \/ app.failed = 5
                            THEN app.failed - 1
                            ELSE app.failed
        /\ (app.failed = 4 /\ app.written = 1) => SumSeq(app.waits) = 30

C1_Witness ==
    /\ app.caller = "traverse"
    /\ app.failed = 4
    /\ app.written = 1
    /\ app.waits = <<2, 4, 8, 16>>
    /\ ledger[Len(ledger)] = vid.ret
    /\ pc = "loop"

\* C2: when the 5th attempt of a call fails like the four before it with a
\* transient failure, the call returns normally: the sheet holds no row of
\* this call, no exception is raised, and the caller goes on (the loop of
\* traverse_folder moves to its next item; main goes on to the root name).
C2_ExhaustedStep ==
    (pc = "append_try" /\ app.failed = 4 /\ app'.failed = 5) =>
        /\ ledger' = ledger
        /\ Len(ledger') = app.rows_before
        /\ app'.written = 0
        /\ raised' = "none"
        /\ pc' = IF app.caller = "main" THEN "root_name" ELSE "loop"
        /\ stack' = IF app.caller = "main" THEN stack ELSE Advance(stack)

C2_Exhausted == [][C2_ExhaustedStep]_vars

C2_Witness ==
    /\ app.caller = "traverse"
    /\ app.failed = 5
    /\ app.written = 0
    /\ vid.ret # None
    /\ Len(ledger) = app.rows_before
    /\ pc = "loop"
    /\ raised = "none"

PipelinePcs ==
    {"download", "write_temp", "probe", "read_frame", "imwrite", "upload", "finally"}

\* the temporary files one invocation of process_video can create
InvocationFiles ==
    IF vid.file = None THEN {}
    ELSE {TempVideoPath(vid.file.name), ThumbnailPath(ThumbnailName(vid.file.name))}

Count(q, x) == Cardinality({k \in DOMAIN q : q[k] = x})

\* What holds of every step once the current video was given up for one of
\* the reasons: the result is None, nothing is uploaded or appended, no
\* step of the pipeline is run again, and the function returns to the loop
\* of traverse_folder, which hands None to append_to_sheet and moves on.
SkippedVideoStep(reasons) ==
    (vid'.skipped \in reasons) =>
        /\ vid'.ret = None
        /\ vid'.exc = "none"
        /\ drive' = drive
        /\ ledger' = ledger
        /\ pc' \notin (PipelinePcs \ {"finally"}) \cup {"append_try", "append_sleep"}
        /\ Count(procCalls', vid'.file.id) = 1
        /\ pc = "finally" => pc' = "returned" /\ raised' = "none"
        /\ pc = "returned" => /\ pc' = "loop"
                              /\ stack' = Advance(stack)
                              /\ raised' = "none"
                              /\ app'.data_row = None
                              /\ app'.requests = 0

\* C4: a video whose frame rate is missing or zero, or whose frame cannot
\* be decoded, gives no row, no upload call and no append request, is not
\* tried again, and the loop goes on to the next sibling.
C4_NoFrame == [][SkippedVideoStep({"fps", "decode"}) /\ (vid'.skipped \in {"fps", "decode"} => vid'.uploads = 0)]_vars

C4_Witness ==
    /\ vid.skipped = "fps"
    /\ vid.uploads = 0
    /\ drive = <<>>
    /\ pc = "loop"
    /\ Top.i = 2
    /\ app.data_row = None
    /\ raised = "none"

\* every folder of the tree that can be reached from folder f through
\* non-trashed children, f included
RECURSIVE FoldersUnder(_, _, _)
FoldersUnder(t, f, depth) ==
    IF depth = 0 THEN {f}
    ELSE {f} \cup UNION { FoldersUnder(t, t.children[f][k].id, depth - 1) :
                           k \in {j \in DOMAIN t.children[f] :
                                     /\ ~t.children[f][j].trashed
                                     /\ IsFolder(t.children[f][j])} }

ReachableFolders(t) == FoldersUnder(t, RootId, Cardinality(DOMAIN t.children))

VideosIn(t, folders) ==
    UNION { { t.children[f][k].id : k \in {j \in DOMAIN t.children[f] :
                                              /\ ~t.children[f][j].trashed
                                              /\ IsVideo(t.children[f][j])} } :
            f \in folders }

\* C5 as stated: a run over a tree with no listing failure lists every
\* folder reachable from the root exactly once and processes every video
\* of those folders exactly once.
C5_Original ==
    (pc = "done" /\ listFailed = {}) =>
        /\ \A f \in ReachableFolders(tree) : Count(listCalls, f) = 1
        /\ \A v \in VideosIn(tree, ReachableFolders(tree)) : Count(procCalls, v) = 1

\* C6 as stated: the items an activation loops over are all non-trashed
\* children of its folder, whatever the number of pages they come in.
C6_Original ==
    pc = "loop" => Top.items = NonTrashed(tree.children[Top.folder_id])

\* When a run completes: every entry a successful listing returned was
\* handled once, and nothing below a folder whose listing failed was visited.
C7_Done ==
    pc = "done" =>
        /\ \A f \in {listCalls[k] : k \in DOMAIN listCalls} \ listFailed :
             LET items == ListFirstPage(tree, f) IN
             \A k \in DOMAIN items :
                 /\ IsFolder(items[k]) => Count(listCalls, items[k].id) = 1
                 /\ IsVideo(items[k]) => Count(procCalls, items[k].id) = 1
        /\ \A f \in listFailed :
             /\ Count(listCalls, f) = 1
             /\ \A g \in FoldersUnder(tree, f, Cardinality(DOMAIN tree.children)) \ {f} :
                    Count(listCalls, g) = 0
             /\ \A v \in VideosIn(tree, FoldersUnder(tree, f, Cardinality(DOMAIN tree.children))) :
                    Count(procCalls, v) = 0

\* The step in which a listing fails with HttpError leaves the run where a
\* listing that returned no entry, followed by the end of its loop, would.
C7_Step ==
    (listFailed' # listFailed) =>
        /\ raised' = "none"
        /\ pc' = IF Len(stack) = 1 THEN "done" ELSE "loop"
        /\ stack' = IF Len(stack) = 1 THEN <<>>
                    ELSE Advance(SubSeq(stack, 1, Len(stack) - 1))
        /\ UNCHANGED << ledger, drive, tmpfiles, procCalls, vid, app >>

\* C7: a folder whose listing fails with a remote error is handled as an
\* empty folder: only its subtree is skipped, and the entries listed after
\* it in its parent, like everything outside it, are visited as before.
C7_ListFailure == [](C7_Done) /\ [][C7_Step]_vars

C7_Witness ==
    /\ pc = "done"
    /\ listFailed = { <<"A">> }
    /\ listCalls = << RootId, <<"A">> >>
    /\ procCalls = << <<"v2">> >>

\* C8: a video whose download or upload fails with HttpError gives a None
\* result and no row, nothing is raised out of traverse_folder, and the
\* loop goes on to the next sibling.
C8_HttpError == [][SkippedVideoStep({"download", "upload"}) /\ (vid'.skipped = "download" => vid'.uploads = 0)]_vars

C8_Witness ==
    /\ vid.skipped = "upload"
    /\ vid.uploads = 1
    /\ vid.ret = None
    /\ pc = "loop"
    /\ Top.i >= 1
    /\ app.data_row = None
    /\ app.requests = 0
    /\ raised = "none"

\* C9 as stated: once the configuration and credential checks have passed,
\* no error of a later step ends the run; only those two checks do.
C9_Original ==
    pc = "crashed" => raised = "RuntimeError"

\* C10: when process_video has returned no row, the call of
\* append_to_sheet that follows issues no remote request and does not
\* sleep, and the sheet is as it was.
C10_NoRowNoAppend ==
    /\ (app.caller # "none" /\ app.data_row = None) =>
           /\ app.requests = 0
           /\ app.waits = <<>>
           /\ Len(ledger) = app.rows_before
           /\ ~InAppend
    /\ (vid.cleanup # "none" /\ vid.exc = "none" /\ vid.ret = None /\ pc # "returned") =>
           /\ app.caller = "traverse"
           /\ app.data_row = None

C10_Witness ==
    /\ vid.cleanup # "none"
    /\ vid.exc = "none"
    /\ vid.ret = None
    /\ app.caller = "traverse"
    /\ app.data_row = None
    /\ app.requests = 0
    /\ pc = "loop"

\* the environment lacks something main requires: an identifier is unset,
\* which leaves its placeholder default, or no credentials are given
BadConfig ==
    \/ \E id \in {cfg.START_FOLDER_ID, cfg.THUMBNAIL_FOLDER_ID, cfg.SPREADSHEET_ID} :
           id[Len(id)] = "_PLACEHOLDER"
    \/ ~cfg.SERVICE_ACCOUNT_JSON /\ ~cfg.SERVICE_ACCOUNT_FILE

\* C11: with an identifier left at its placeholder, or with no credentials,
\* main ends with RuntimeError and no remote call is ever made: the sheet
\* is not read, no header is appended, nothing is looked up, listed,
\* downloaded or uploaded.
C11_FailFast ==
    BadConfig =>
        /\ pc \in {"main", "authenticate", "crashed"}
        /\ pc = "crashed" => raised = "RuntimeError"
        /\ hist = NoHistory
        /\ app = NoAppend
        /\ vid = NoVideo
        /\ listCalls = <<>>
        /\ procCalls = <<>>
        /\ drive = <<>>
        /\ stack = <<>>

C11_Witness ==
    /\ EndsWith(cfg.SPREADSHEET_ID, PLACEHOLDER)
    /\ pc = "crashed"
    /\ raised = "RuntimeError"
    /\ ~hist.contacted

\* traverse_folder has been called for the root
TraversalBegun == stack # <<>> \/ pc = "done"

\* C12 as stated: when the startup read shows no rows, the header is in
\* the sheet before the traversal begins, as its first row.
C12_Original ==
    (hist.read = "empty" /\ TraversalBegun) =>
        /\ ledger # <<>>
        /\ ledger[1] = SHEET_HEADER

\* C12 as amended: when the startup read shows no rows, append_to_sheet is
\* called with the header and has returned before the traversal begins;
\* when an attempt of that call succeeded the header is the first row and
\* the only header row of the sheet, and when all 5 attempts failed the
\* sheet holds no header.
C12_HeaderAttempted ==
    /\ (hist.read = "empty" /\ TraversalBegun) => hist.header \in {"written", "exhausted"}
    /\ (hist.read = "empty" /\ hist.header = "called") => /\ ledger = <<>>
                                                         /\ InAppend
                                                         /\ app.data_row = SHEET_HEADER
    /\ hist.header = "written" =>
           /\ ledger # <<>>
           /\ ledger[1] = SHEET_HEADER
           /\ \A k \in 2..Len(ledger) : ledger[k] # SHEET_HEADER
    /\ hist.header = "exhausted" =>
           \A k \in 1..Len(ledger) : ledger[k] # SHEET_HEADER

C12_Witness ==
    /\ hist.read = "empty"
    /\ hist.header = "written"
    /\ pc = "done"
    /\ Len(ledger) = 2
    /\ ledger[1] = SHEET_HEADER
    /\ ledger[2] = vid.ret

\* C13 as stated: when the startup read of the sheet fails, nothing is
\* raised and no header is written: main goes on to the root folder's name
\* as it does after a read that showed rows.
C13_OriginalStep ==
    (pc = "header_check" /\ hist'.read \in {"HttpError", "other"}) =>
        /\ pc' = "root_name"
        /\ raised' = "none"
        /\ hist'.header = "none"
        /\ UNCHANGED << ledger, app, stack >>

C13_Original == [][C13_OriginalStep]_vars

\* the folder of the tree that holds the entry
ParentOf(t, id) ==
    CHOOSE f \in DOMAIN t.children : \E k \in DOMAIN t.children[f] : t.children[f][k].id = id

\* the entry of the tree with this id
EntryOf(t, id) ==
    LET f == ParentOf(t, id)
    IN  t.children[f][CHOOSE k \in DOMAIN t.children[f] : t.children[f][k].id = id]

\* the display names of the folders from the root down to folder f
RECURSIVE NamesTo(_, _)
NamesTo(t, f) ==
    IF f = RootId THEN << t.rootName >>
    ELSE Append(NamesTo(t, ParentOf(t, f)), EntryOf(t, f).name)

\* the names written one after the other with "/" between them
RECURSIVE JoinSlash(_)
JoinSlash(names) ==
    IF Len(names) = 1 THEN names[1]
    ELSE JoinSlash(SubSeq(names, 1, Len(names) - 1)) \o <<"/">> \o names[Len(names)]

\* every entry the store holds, in any folder
AllEntries(t) ==
    UNION { { t.children[f][k] : k \in DOMAIN t.children[f] } : f \in DOMAIN t.children }

\* C14: the path of every activation of traverse_folder is the "/"-joined
\* names of the folders from the root to its folder, a sub-folder getting
\* its parent's path with its own name appended; the path handed to
\* process_video, and written in the second field of the row, is the path
\* of the folder the video is in, without the video's name.
C14_Paths ==
    /\ \A k \in DOMAIN stack :
           stack[k].current_path = JoinSlash(NamesTo(tree, stack[k].folder_id))
    /\ \A k \in 2..Len(stack) :
           stack[k].current_path =
               stack[k - 1].current_path \o <<"/">> \o EntryOf(tree, stack[k].folder_id).name
    /\ vid.file # None =>
           /\ vid.folder_path = JoinSlash(NamesTo(tree, ParentOf(tree, vid.file.id)))
           /\ vid.ret # None => vid.ret[2] = vid.folder_path
    /\ \A k \in DOMAIN ledger :
           ledger[k] # SHEET_HEADER =>
               \E v \in AllEntries(tree) :
                   /\ ledger[k][1] = SplitextStem(v.name) \o <<"_Thumbnail.jpg">>
                   /\ ledger[k][2] = JoinSlash(NamesTo(tree, ParentOf(tree, v.id)))
                   /\ ~EndsWith(ledger[k][2], v.name)

C14_Witness ==
    /\ ledger # <<>>
    /\ ledger[Len(ledger)][1] = <<"a", "_Thumbnail.jpg">>
    /\ ledger[Len(ledger)][2] = <<"Root", "/", "Clips">>
    /\ vid.file.name = <<"a", ".", "mp4">>

\* the positions of the store's files of that name
UploadsNamed(name) == {k \in DOMAIN drive : drive[k].name = name}

\* the positions of the ledger's rows whose first field is that name
RowsNamed(name) == {k \in DOMAIN ledger : ledger[k][1] = name}

\* the script ran twice to completion and no call or step of either run failed
TwoCleanRuns == pc = "done" /\ run = 2 /\ hist.clean

\* C15 as stated: after two runs over the unchanged tree in which nothing
\* failed, every video the traversal processes has two uploaded thumbnails
\* and two identical ledger rows.
C15_Original ==
    TwoCleanRuns =>
        \A n \in DOMAIN procCalls :
            LET name == ThumbnailName(EntryOf(tree, procCalls[n]).name) IN
            /\ Cardinality(UploadsNamed(name)) = 2
            /\ Cardinality(RowsNamed(name)) = 2
            /\ \A i, j \in RowsNamed(name) : ledger[i] = ledger[j]

\* C15: after two runs over the unchanged tree in which nothing failed,
\* every video the traversal processes has two uploaded thumbnails of the
\* same name and two ledger rows; the two rows have the same thumbnail name
\* and the same folder path, and each carries the link of its own upload,
\* so they differ in the third field. The second run adds as many rows and
\* uploads as the first.
C15_NotIdempotent ==
    TwoCleanRuns =>
        /\ Len(drive) = 2 * Len(procCalls)
        /\ Len(ledger) = 1 + 2 * Len(procCalls)
        /\ \A n \in DOMAIN procCalls :
              LET name == ThumbnailName(EntryOf(tree, procCalls[n]).name) IN
              /\ Cardinality(UploadsNamed(name)) = 2
              /\ Cardinality(RowsNamed(name)) = 2
              /\ \A i, j \in RowsNamed(name) :
                    /\ ledger[i][2] = ledger[j][2]
                    /\ i # j => ledger[i][3] # ledger[j][3]
              /\ \A k \in UploadsNamed(name) :
                    \E i \in RowsNamed(name) : ledger[i][3] = drive[k].webViewLink

C15_Witness ==
    /\ TwoCleanRuns
    /\ Len(procCalls) = 2
    /\ Len(ledger) = 5
    /\ Len(drive) = 4

\* the positions of the ledger's data rows that carry this link
RowsLinked(link) ==
    {i \in DOMAIN ledger : ledger[i] # SHEET_HEADER /\ ledger[i][3] = link}

\* C16 as stated: when a run completes, every video whose thumbnail was
\* uploaded and whose row was returned has exactly one data row.
C16_Original ==
    pc = "done" =>
        \A k \in DOMAIN drive : Cardinality(RowsLinked(drive[k].webViewLink)) = 1

\* C16: when a run completes, every video whose thumbnail was uploaded and
\* whose row was returned has at most one data row: exactly one, unless the
\* append of its row was given up after the fifth failed attempt, and then
\* none. Every data row belongs to one uploaded thumbnail.
C16_OneRowUnlessGivenUp ==
    pc = "done" =>
        /\ \A k \in DOMAIN drive :
              LET link == drive[k].webViewLink
                  givenUp == \E r \in hist.dropped : r[3] = link
              IN  Cardinality(RowsLinked(link)) = IF givenUp THEN 0 ELSE 1
        /\ \A i \in DOMAIN ledger :
              ledger[i] # SHEET_HEADER =>
                  \E k \in DOMAIN drive : ledger[i][3] = drive[k].webViewLink

C16_Witness ==
    /\ pc = "done"
    /\ Len(drive) = 2
    /\ RowsLinked(drive[1].webViewLink) = {}
    /\ Cardinality(RowsLinked(drive[2].webViewLink)) = 1

\* the loop of traverse_folder is at an entry that is neither a folder nor
\* a video
AtOtherItem ==
    /\ pc = "loop"
    /\ Top.i < Len(Top.items)
    /\ Top.items[Top.i + 1].mimeType # FOLDER_MIME
    /\ ~StartsWith(Top.items[Top.i + 1].mimeType, VIDEO_PREFIX)

C17_IgnoredStep ==
    AtOtherItem =>
        /\ pc' = "loop"
        /\ stack' = Advance(stack)
        /\ raised' = raised
        /\ UNCHANGED << vid, app, ledger, drive, tmpfiles, listCalls, procCalls,
                        listFailed, hist >>

\* C17: handling an entry that is neither a folder nor a video only moves
\* the loop to the next entry: no process_video call and so no download or
\* upload, no append call, no list call and no other remote call, the
\* ledger, the store and temporary storage unchanged, and nothing raised.
C17_OtherIgnored == [][C17_IgnoredStep]_vars

C17_Witness ==
    /\ pc = "loop"
    /\ Top.i = 2
    /\ Top.items[2].name = <<"notes", ".", "txt">>
    /\ Len(procCalls) = 1
    /\ raised = "none"

\* the download of the current video delivered its last chunk and the bytes
\* were written to the temporary file
Downloaded == vid.chunks >= 1 /\ vid.temp_video_path # None

\* the last call of append_to_sheet is over: its row was written, or given
\* up after the fifth failure, or there was no row
AppendOver == app.data_row # None => (app.written = 1 \/ app.failed = 5)

\* C18: within one video's pipeline the upload is reached, and issued, only
\* after the download completed and a frame was decoded and written; a
\* remote append for the video is attempted only with the row its upload
\* returned, after the cleanup; and while a video is in its pipeline the
\* append of the one before it is over, by success or by exhaustion.
C18_Ordered ==
    /\ pc \in {"imwrite", "upload"} => Downloaded /\ vid.image
    /\ (pc = "upload" \/ vid.uploads >= 1) =>
           /\ Downloaded
           /\ vid.image
           /\ vid.thumbnail_path # None
    /\ (InAppend /\ app.caller = "traverse") =>
           /\ vid.uploads = 1
           /\ vid.exc = "none"
           /\ vid.cleanup # "none"
           /\ vid.ret # None
           /\ app.data_row = vid.ret
           /\ drive # <<>>
           /\ vid.ret[3] = drive[Len(drive)].webViewLink
    /\ pc \in PipelinePcs => AppendOver

C18_Witness ==
    /\ pc = "upload"
    /\ Len(procCalls) = 2
    /\ app.caller = "traverse"
    /\ app.failed = 5
    /\ Len(drive) = 1

\* the temporary thumbnails and the temporary videos in local storage
TempThumbnails == {f \in tmpfiles : EndsWith(f, <<"_Thumbnail.jpg">>)}
TempVideos == tmpfiles \ TempThumbnails

\* at most one temporary video and one temporary thumbnail, and none
\* outside process_video: while a folder is listed or its items are looped
\* over, and while an append is attempted or waits in backoff
OneArtifactEach ==
    /\ Cardinality(TempVideos) <= 1
    /\ Cardinality(TempThumbnails) <= 1
    /\ pc \in {"list", "loop", "returned", "append_try", "append_sleep"} => tmpfiles = {}

Stopped == pc \in {"done", "crashed"}

\* C20: a run that has passed startup stops, by completing or on an
\* unhandled error, whatever calls fail; on the way no folder is listed
\* twice, so the list calls are at most as many as the folders of the
\* tree, and no call of append_to_sheet makes more than 5 requests.
C20_Stops ==
    /\ [](/\ Len(listCalls) <= Cardinality(DOMAIN tree.children)
          /\ \A f \in DOMAIN tree.children : Count(listCalls, f) <= 1
          /\ app.requests <= 5)
    /\ (pc = "header_check") ~> Stopped

C20_Witness ==
    /\ pc = "done"
    /\ Len(listCalls) = 3
    /\ listFailed # {}
    /\ app.failed = 5
    /\ ~hist.clean

====
